---- MODULE Spec2Model ----
(***************************************************************************)
(* The document-indexing node of retrieval_graph/index_graph.py:           *)
(* index_docs and its two helpers, ensure_docs_have_user_id and            *)
(* add_topic_modeling_metadata, with the collaborators they call           *)
(* (retrieval.make_retriever, embed_documents, get_topic_modeling_info,    *)
(* retriever.aadd_documents) modelled as recording mocks.                  *)
(*                                                                         *)
(* Python objects live in a per-invocation heap: a Document is an entry of *)
(* heap[r], a list of documents is a sequence of addresses into it, and    *)
(* constructing a Document appends a fresh entry.                          *)
(***************************************************************************)
EXTENDS Integers, Sequences, FiniteSets, TLC

VARIABLES
    pc,           \* pc[r]: where invocation r of index_docs stands
    config,       \* config[r]: the config argument (None, or a dict)
    docs,         \* docs[r]: state.docs, a sequence of heap addresses
    heap,         \* heap[r]: the Document objects of invocation r
    heap0,        \* heap0[r]: the input Documents as they were at the call
    stamped,      \* stamped[r]: stamped_docs (line 75), addresses
    vectors,      \* vectors[r]: array_vectors (line 52)
    labelled,     \* labelled[r]: labelled_docs (line 76), addresses
    held,         \* held[r]: the retriever of the with block is open
    pending,      \* pending[r]: the exception unwinding the with block
    result,       \* result[r]: what index_docs returned or raised
    hist,         \* hist[r]: every value pc[r] has taken, in order
    acquired,     \* acquired[r]: calls of make_retriever(...).__enter__
    released,     \* released[r]: calls of the retriever's __exit__
    embedCalls,   \* embedCalls[r]: arguments of each embed_documents call
    assignCalls,  \* assignCalls[r]: arguments of each get_topic_modeling_info call
    commitCalls,  \* commitCalls[r]: arguments of each aadd_documents call
    sink          \* the index backend: the batches committed, in order

vars == <<pc, config, docs, heap, heap0, stamped, vectors, labelled, held,
          pending, result, hist, acquired, released, embedCalls, assignCalls,
          commitCalls, sink>>

(***************************************************************************)
(* Bounds of the model.                                                    *)
(***************************************************************************)
\* Longest state.docs of a single invocation.
MaxDocs == 2
\* Longest state.docs of each of two concurrent invocations.
MaxConcDocs == 1

(***************************************************************************)
(* Values.                                                                 *)
(***************************************************************************)
EmptyMap == [k \in {} |-> ""]

\* Document(page_content=c, metadata=m)
Document(c, m) == [page_content |-> c, metadata |-> m]

ContentSet == {"a", "b"}

MetaSet ==
    { EmptyMap,
      [source |-> "web"],
      [source |-> "web", user_id |-> "bob"],
      [topic |-> "old"] }

DocSet == { Document(c, m) : c \in ContentSet, m \in MetaSet }

\* Sequences over S of length at most n.
SeqUpTo(S, n) == UNION { [1..k -> S] : k \in 0..n }

\* A RunnableConfig: None, or a dict that may hold "configurable".
NoneConfig == [isNone |-> TRUE, dict |-> EmptyMap]

DictConfig(d) == [isNone |-> FALSE, dict |-> d]

UserConfig(u) == DictConfig([configurable |-> [user_id |-> u]])

ConfigSet ==
    { NoneConfig,
      DictConfig(EmptyMap),
      DictConfig([configurable |-> EmptyMap]),
      UserConfig(""),
      UserConfig("alice"),
      UserConfig("bob") }

\* The user_id of the i-th concurrent invocation.
UserOf(r) == IF r = 1 THEN "alice" ELSE "bob"

\* {**m1, **m2}: on a key of both, m2 wins.
Merge(m1, m2) ==
    [k \in DOMAIN m1 \cup DOMAIN m2 |-> IF k \in DOMAIN m2 THEN m2[k] ELSE m1[k]]

\* The elements of a sequence.
Range(s) == { s[i] : i \in DOMAIN s }

\* The Documents a sequence of addresses denotes in heap h.
Deref(h, as) == [i \in DOMAIN as |-> h[as[i]]]

NoResult == [kind |-> "none", value |-> EmptyMap]

Returned(v) == [kind |-> "return", value |-> v]

Raised(e) == [kind |-> "raise", value |-> [exc |-> e]]

\* {"docs": "delete"} (line 79)
CompletionSignal == [docs |-> "delete"]

(***************************************************************************)
(* ensure_docs_have_user_id (lines 18-35).                                 *)
(***************************************************************************)
\* config["configurable"]["user_id"] raises KeyError (line 29)
UserIdMissing(cfg) ==
    \/ "configurable" \notin DOMAIN cfg.dict
    \/ "user_id" \notin DOMAIN cfg.dict["configurable"]

\* A stamper that writes user_id into the input Documents and returns them.
StampInPlace(h, ds, cfg) ==
    LET user_id == cfg.dict["configurable"]["user_id"]
    IN  [heap   |-> [a \in DOMAIN h |->
                        IF a \in Range(ds)
                        THEN Document(h[a].page_content,
                                      Merge(h[a].metadata, [user_id |-> user_id]))
                        ELSE h[a]],
         result |-> ds]

\* A stamper in which the document's own metadata wins over the user_id.
StampDocWins(h, ds, cfg) ==
    LET user_id == cfg.dict["configurable"]["user_id"]
        new == [i \in DOMAIN ds |->
                   Document(h[ds[i]].page_content,
                            Merge([user_id |-> user_id], h[ds[i]].metadata))]
    IN  [heap   |-> h \o new,
         result |-> [i \in DOMAIN ds |-> Len(h) + i]]

\* A stamper that skips the first document.
StampSkipFirst(h, ds, cfg) ==
    LET user_id == cfg.dict["configurable"]["user_id"]
        rest == IF ds = <<>> THEN <<>> ELSE Tail(ds)
        new == [i \in DOMAIN rest |->
                   Document(h[rest[i]].page_content,
                            Merge(h[rest[i]].metadata, [user_id |-> user_id]))]
    IN  [heap   |-> h \o new,
         result |-> [i \in DOMAIN rest |-> Len(h) + i]]

\* The list comprehension of lines 30-35: one new Document per input, with
\* metadata {**doc.metadata, "user_id": user_id}; the inputs are only read.
ensure_docs_have_user_id(h, ds, cfg) ==
    LET user_id == cfg.dict["configurable"]["user_id"]
        new == [i \in DOMAIN ds |->
                   Document(h[ds[i]].page_content,
                            Merge(h[ds[i]].metadata, [user_id |-> user_id]))]
    IN  [heap   |-> h \o new,
         result |-> [i \in DOMAIN ds |-> Len(h) + i]]

(***************************************************************************)
(* The collaborators of add_topic_modeling_metadata (lines 38-56).         *)
(***************************************************************************)
\* texts = [doc.page_content for doc in docs] (line 50)
Texts(h, ds) == [i \in DOMAIN ds |-> h[ds[i]].page_content]

\* The embedding model as a function of one text.
Vec(t) == IF t = "a" THEN <<0>> ELSE <<9>>

\* What embed_documents(texts) may return: one vector per text, in order, or
\* a list that is one vector short or one vector long.
EmbedReturns(texts) ==
    LET good == [i \in DOMAIN texts |-> Vec(texts[i])]
    IN  {good, Append(good, <<0>>)}
        \cup (IF texts = <<>> THEN {} ELSE {SubSeq(good, 1, Len(good) - 1)})

\* The pre-fit topic model: a vector outside every cluster is "unclassified".
TopicOf(v) == IF v[1] < 5 THEN "topic-0" ELSE "unclassified"

\* A precondition check that only notices too few vectors.
CountMismatchOnlyShort(ds, vs) == Len(vs) < Len(ds)

\* The precondition of get_topic_modeling_info: len(documents) == len(vectors);
\* its violation is rejected with InvariantViolation.
CountMismatch(ds, vs) == Len(vs) # Len(ds)

\* get_topic_modeling_info(docs, array_vectors): a copy of every document
\* with its topic label under the reserved key.
get_topic_modeling_info(h, ds, vs) ==
    LET new == [i \in DOMAIN ds |->
                   Document(h[ds[i]].page_content,
                            Merge(h[ds[i]].metadata, [topic |-> TopicOf(vs[i])]))]
    IN  [heap   |-> h \o new,
         result |-> [i \in DOMAIN ds |-> Len(h) + i]]

(***************************************************************************)
(* Initial states.                                                         *)
(***************************************************************************)
InitRuns(runs, cfgs, maxDocs) ==
    /\ heap \in [runs -> SeqUpTo(DocSet, maxDocs)]
    /\ heap0 = heap
    /\ docs = [r \in runs |-> [i \in 1..Len(heap[r]) |-> i]]
    /\ config \in cfgs
    /\ pc = [r \in runs |-> "Idle"]
    /\ hist = [r \in runs |-> <<"Idle">>]
    /\ stamped = [r \in runs |-> <<>>]
    /\ vectors = [r \in runs |-> <<>>]
    /\ labelled = [r \in runs |-> <<>>]
    /\ held = [r \in runs |-> FALSE]
    /\ pending = [r \in runs |-> "none"]
    /\ result = [r \in runs |-> NoResult]
    /\ acquired = [r \in runs |-> 0]
    /\ released = [r \in runs |-> 0]
    /\ embedCalls = [r \in runs |-> <<>>]
    /\ assignCalls = [r \in runs |-> <<>>]
    /\ commitCalls = [r \in runs |-> <<>>]
    /\ sink = <<>>

\* One invocation, any config, any batch.
Init == InitRuns({1}, [{1} -> ConfigSet], MaxDocs)

\* Two invocations with distinct user_id values.
InitConc == InitRuns({1, 2}, {[r \in {1, 2} |-> UserConfig(UserOf(r))]}, MaxConcDocs)

Runs == DOMAIN pc

(***************************************************************************)
(* Control flow of index_docs (lines 59-79).                               *)
(***************************************************************************)
Goto(r, p) ==
    /\ pc' = [pc EXCEPT ![r] = p]
    /\ hist' = [hist EXCEPT ![r] = Append(@, p)]

\* An exception that leaves index_docs outside the with block.
Fail(r, e) ==
    /\ Goto(r, "Failed")
    /\ result' = [result EXCEPT ![r] = Raised(e)]

\* An exception that escapes the with block without running __exit__.
RaiseNoExit(r, e) ==
    /\ Fail(r, e)
    /\ UNCHANGED pending

\* An exception raised inside the with block of line 74: the block is left
\* through the retriever's __exit__, which sees the exception.
Raise(r, e) ==
    /\ Goto(r, "Releasing")
    /\ pending' = [pending EXCEPT ![r] = e]
    /\ UNCHANGED result

\* The coroutine is called.
Invoke(r) ==
    /\ pc[r] = "Idle"
    /\ Goto(r, "Validating")
    /\ UNCHANGED <<config, docs, heap, heap0, stamped, vectors, labelled, held,
                   pending, result, acquired, released, embedCalls, assignCalls,
                   commitCalls, sink>>

\* The task is cancelled before the coroutine runs its first statement.
CancelBeforeStart(r) ==
    /\ pc[r] = "Idle"
    /\ Fail(r, "CancelledError")
    /\ UNCHANGED <<config, docs, heap, heap0, stamped, vectors, labelled, held,
                   pending, acquired, released, embedCalls, assignCalls,
                   commitCalls, sink>>

\* A check that rejects only None (if config is None), letting {} through.
ValidateNoneOnly(r) ==
    /\ pc[r] = "Validating"
    /\ IF config[r].isNone
       THEN Fail(r, "ValueError")
       ELSE Goto(r, "Acquiring") /\ UNCHANGED result
    /\ UNCHANGED <<config, docs, heap, heap0, stamped, vectors, labelled, held,
                   pending, acquired, released, embedCalls, assignCalls,
                   commitCalls, sink>>

\* if not config: raise ValueError (lines 72-73); None and {} are falsy.
Validate(r) ==
    /\ pc[r] = "Validating"
    /\ IF config[r].isNone \/ DOMAIN config[r].dict = {}
       THEN Fail(r, "ValueError")
       ELSE Goto(r, "Acquiring") /\ UNCHANGED result
    /\ UNCHANGED <<config, docs, heap, heap0, stamped, vectors, labelled, held,
                   pending, acquired, released, embedCalls, assignCalls,
                   commitCalls, sink>>

\* with retrieval.make_retriever(config) as retriever (line 74): the handle
\* is opened, or making it fails and the with block is never entered.
Acquire(r) ==
    /\ pc[r] = "Acquiring"
    /\ \/ /\ Goto(r, "Stamping")
          /\ held' = [held EXCEPT ![r] = TRUE]
          /\ acquired' = [acquired EXCEPT ![r] = @ + 1]
          /\ UNCHANGED result
       \/ /\ Fail(r, "RetrieverError")
          /\ UNCHANGED <<held, acquired>>
    /\ UNCHANGED <<config, docs, heap, heap0, stamped, vectors, labelled,
                   pending, released, embedCalls, assignCalls, commitCalls, sink>>

\* A stamp step that reads the config of whichever invocation set it last.
StampSharedConfig(r) ==
    /\ pc[r] = "Stamping"
    /\ \E q \in Runs :
          IF UserIdMissing(config[q])
          THEN /\ Raise(r, "KeyError")
               /\ UNCHANGED <<heap, stamped>>
          ELSE LET out == ensure_docs_have_user_id(heap[r], docs[r], config[q])
               IN  /\ heap' = [heap EXCEPT ![r] = out.heap]
                   /\ stamped' = [stamped EXCEPT ![r] = out.result]
                   /\ Goto(r, "Embedding")
                   /\ UNCHANGED <<pending, result>>
    /\ UNCHANGED <<config, docs, heap0, vectors, labelled, held, acquired,
                   released, embedCalls, assignCalls, commitCalls, sink>>

\* A stamp step after which the stamped documents go straight to the sink.
StampThenCommit(r) ==
    /\ pc[r] = "Stamping"
    /\ IF UserIdMissing(config[r])
       THEN /\ Raise(r, "KeyError")
            /\ UNCHANGED <<heap, stamped, labelled>>
       ELSE LET out == ensure_docs_have_user_id(heap[r], docs[r], config[r])
            IN  /\ heap' = [heap EXCEPT ![r] = out.heap]
                /\ stamped' = [stamped EXCEPT ![r] = out.result]
                /\ labelled' = [labelled EXCEPT ![r] = out.result]
                /\ Goto(r, "Committing")
                /\ UNCHANGED <<pending, result>>
    /\ UNCHANGED <<config, docs, heap0, vectors, held, acquired,
                   released, embedCalls, assignCalls, commitCalls, sink>>

\* stamped_docs = ensure_docs_have_user_id(state.docs, config) (line 75)
Stamp(r) ==
    /\ pc[r] = "Stamping"
    /\ IF UserIdMissing(config[r])
       THEN /\ Raise(r, "KeyError")
            /\ UNCHANGED <<heap, stamped>>
       ELSE LET out == ensure_docs_have_user_id(heap[r], docs[r], config[r])
            IN  /\ heap' = [heap EXCEPT ![r] = out.heap]
                /\ stamped' = [stamped EXCEPT ![r] = out.result]
                /\ Goto(r, "Embedding")
                /\ UNCHANGED <<pending, result>>
    /\ UNCHANGED <<config, docs, heap0, vectors, labelled, held, acquired,
                   released, embedCalls, assignCalls, commitCalls, sink>>

\* An embedding step that tries embed_documents a second time when the
\* first call raised.
EmbedRetry(r) ==
    /\ pc[r] = "Embedding"
    /\ LET texts == Texts(heap[r], stamped[r])
       IN  /\ embedCalls' = [embedCalls EXCEPT ![r] = Append(@, texts)]
           /\ \/ \E vs \in EmbedReturns(texts) :
                    /\ vectors' = [vectors EXCEPT ![r] = vs]
                    /\ Goto(r, "Assigning")
                    /\ UNCHANGED <<pending, result>>
              \/ /\ embedCalls[r] = <<>>
                 /\ Goto(r, "Embedding")
                 /\ UNCHANGED <<vectors, pending, result>>
              \/ /\ embedCalls[r] # <<>>
                 /\ Raise(r, "EmbeddingProviderError")
                 /\ UNCHANGED vectors
    /\ UNCHANGED <<config, docs, heap, heap0, stamped, labelled, held, acquired,
                   released, assignCalls, commitCalls, sink>>

\* An embedding step that calls embed_documents once per document.
EmbedOneByOne(r) ==
    /\ pc[r] = "Embedding"
    /\ LET texts == Texts(heap[r], stamped[r])
       IN  /\ embedCalls' = [embedCalls EXCEPT
                                ![r] = @ \o [i \in DOMAIN texts |-> <<texts[i]>>]]
           /\ \/ \E vs \in EmbedReturns(texts) :
                    /\ vectors' = [vectors EXCEPT ![r] = vs]
                    /\ Goto(r, "Assigning")
                    /\ UNCHANGED <<pending, result>>
              \/ /\ Raise(r, "EmbeddingProviderError")
                 /\ UNCHANGED vectors
    /\ UNCHANGED <<config, docs, heap, heap0, stamped, labelled, held, acquired,
                   released, assignCalls, commitCalls, sink>>

\* Lines 48-52 of add_topic_modeling_metadata: one embed_documents call on
\* the texts of all the documents; it returns vectors or raises.
Embed(r) ==
    /\ pc[r] = "Embedding"
    /\ LET texts == Texts(heap[r], stamped[r])
       IN  /\ embedCalls' = [embedCalls EXCEPT ![r] = Append(@, texts)]
           /\ \/ \E vs \in EmbedReturns(texts) :
                    /\ vectors' = [vectors EXCEPT ![r] = vs]
                    /\ Goto(r, "Assigning")
                    /\ UNCHANGED <<pending, result>>
              \/ /\ Raise(r, "EmbeddingProviderError")
                 /\ UNCHANGED vectors
    /\ UNCHANGED <<config, docs, heap, heap0, stamped, labelled, held, acquired,
                   released, assignCalls, commitCalls, sink>>

\* A topic step after which the with block ends, the await of line 78 being
\* outside it.
AssignThenRelease(r) ==
    /\ pc[r] = "Assigning"
    /\ assignCalls' = [assignCalls EXCEPT
                          ![r] = Append(@, [docs |-> stamped[r], vectors |-> vectors[r]])]
    /\ IF CountMismatch(stamped[r], vectors[r])
       THEN /\ Raise(r, "InvariantViolation")
            /\ UNCHANGED <<heap, labelled, held, released>>
       ELSE LET out == get_topic_modeling_info(heap[r], stamped[r], vectors[r])
            IN  /\ heap' = [heap EXCEPT ![r] = out.heap]
                /\ labelled' = [labelled EXCEPT ![r] = out.result]
                /\ held' = [held EXCEPT ![r] = FALSE]
                /\ released' = [released EXCEPT ![r] = @ + 1]
                /\ Goto(r, "Committing")
                /\ UNCHANGED <<pending, result>>
    /\ UNCHANGED <<config, docs, heap0, stamped, vectors, acquired,
                   embedCalls, commitCalls, sink>>

\* labeled_docs = get_topic_modeling_info(docs, array_vectors) (lines 54-56),
\* which rejects a vector batch whose length is not that of the documents.
Assign(r) ==
    /\ pc[r] = "Assigning"
    /\ assignCalls' = [assignCalls EXCEPT
                          ![r] = Append(@, [docs |-> stamped[r], vectors |-> vectors[r]])]
    /\ IF CountMismatch(stamped[r], vectors[r])
       THEN /\ Raise(r, "InvariantViolation")
            /\ UNCHANGED <<heap, labelled>>
       ELSE LET out == get_topic_modeling_info(heap[r], stamped[r], vectors[r])
            IN  /\ heap' = [heap EXCEPT ![r] = out.heap]
                /\ labelled' = [labelled EXCEPT ![r] = out.result]
                /\ Goto(r, "Committing")
                /\ UNCHANGED <<pending, result>>
    /\ UNCHANGED <<config, docs, heap0, stamped, vectors, held, acquired,
                   released, embedCalls, commitCalls, sink>>

\* A commit that passes stamped_docs instead of labelled_docs.
CommitCallStamped(r) ==
    /\ pc[r] = "Committing"
    /\ commitCalls' = [commitCalls EXCEPT ![r] = Append(@, stamped[r])]
    /\ Goto(r, "AwaitingCommit")
    /\ UNCHANGED <<config, docs, heap, heap0, stamped, vectors, labelled, held,
                   pending, result, acquired, released, embedCalls, assignCalls,
                   sink>>

\* retriever.aadd_documents(labelled_docs) is called and awaited (line 78):
\* the coroutine is suspended until the sink answers.
CommitCall(r) ==
    /\ pc[r] = "Committing"
    /\ commitCalls' = [commitCalls EXCEPT ![r] = Append(@, labelled[r])]
    /\ Goto(r, "AwaitingCommit")
    /\ UNCHANGED <<config, docs, heap, heap0, stamped, vectors, labelled, held,
                   pending, result, acquired, released, embedCalls, assignCalls,
                   sink>>

\* The batch a pending aadd_documents call of r would add to the sink.
Batch(r) == [by |-> r, batch |-> Deref(heap[r], commitCalls[r][Len(commitCalls[r])])]

\* The sink stored the batch: the await returns and the with block ends.
CommitOk(r) ==
    /\ pc[r] = "AwaitingCommit"
    /\ sink' = Append(sink, Batch(r))
    /\ Goto(r, "Releasing")
    /\ UNCHANGED <<config, docs, heap, heap0, stamped, vectors, labelled, held,
                   pending, result, acquired, released, embedCalls, assignCalls,
                   commitCalls>>

\* The sink rejected the batch: the await raises.
CommitFail(r) ==
    /\ pc[r] = "AwaitingCommit"
    /\ Raise(r, "SinkError")
    /\ UNCHANGED <<config, docs, heap, heap0, stamped, vectors, labelled, held,
                   acquired, released, embedCalls, assignCalls, commitCalls, sink>>

\* A cancellation at the await that ends the run without running __exit__.
CommitCancelledNoExit(r) ==
    /\ pc[r] = "AwaitingCommit"
    /\ Fail(r, "CancelledError")
    /\ \/ sink' = Append(sink, Batch(r))
       \/ UNCHANGED sink
    /\ UNCHANGED <<config, docs, heap, heap0, stamped, vectors, labelled, held,
                   pending, acquired, released, embedCalls, assignCalls,
                   commitCalls>>

\* The task is cancelled while suspended at the await: CancelledError is
\* raised there; whether the sink stored the batch is up to the backend.
CommitCancelled(r) ==
    /\ pc[r] = "AwaitingCommit"
    /\ Raise(r, "CancelledError")
    /\ \/ sink' = Append(sink, Batch(r))
       \/ UNCHANGED sink
    /\ UNCHANGED <<config, docs, heap, heap0, stamped, vectors, labelled, held,
                   acquired, released, embedCalls, assignCalls, commitCalls>>

\* A return that hands back the content of the first document.
ReleaseLeak(r) ==
    /\ pc[r] = "Releasing"
    /\ held' = [held EXCEPT ![r] = FALSE]
    /\ released' = [released EXCEPT ![r] = @ + 1]
    /\ IF pending[r] = "none"
       THEN /\ Goto(r, "Completed")
            /\ result' = [result EXCEPT
                             ![r] = Returned([docs |->
                                        IF docs[r] = <<>> THEN "delete"
                                        ELSE heap[r][docs[r][1]].page_content])]
       ELSE Fail(r, pending[r])
    /\ UNCHANGED <<config, docs, heap, heap0, stamped, vectors, labelled,
                   pending, acquired, embedCalls, assignCalls, commitCalls, sink>>

\* A with block that closes the retriever but loses the exception.
ReleaseSwallow(r) ==
    /\ pc[r] = "Releasing"
    /\ held' = [held EXCEPT ![r] = FALSE]
    /\ released' = [released EXCEPT ![r] = @ + 1]
    /\ Goto(r, "Completed")
    /\ result' = [result EXCEPT ![r] = Returned(CompletionSignal)]
    /\ UNCHANGED <<config, docs, heap, heap0, stamped, vectors, labelled,
                   pending, acquired, embedCalls, assignCalls, commitCalls, sink>>

\* The end of the with block (line 74): __exit__ closes the retriever; then
\* the pending exception propagates, or line 79 returns {"docs": "delete"}.
Release(r) ==
    /\ pc[r] = "Releasing"
    /\ held' = [held EXCEPT ![r] = FALSE]
    /\ released' = [released EXCEPT ![r] = @ + 1]
    /\ IF pending[r] = "none"
       THEN /\ Goto(r, "Completed")
            /\ result' = [result EXCEPT ![r] = Returned(CompletionSignal)]
       ELSE Fail(r, pending[r])
    /\ UNCHANGED <<config, docs, heap, heap0, stamped, vectors, labelled,
                   pending, acquired, embedCalls, assignCalls, commitCalls, sink>>

Next ==
    \/ \E r \in Runs : Invoke(r)
    \/ \E r \in Runs : CancelBeforeStart(r)
    \/ \E r \in Runs : Validate(r)
    \/ \E r \in Runs : Acquire(r)
    \/ \E r \in Runs : Stamp(r)
    \/ \E r \in Runs : Embed(r)
    \/ \E r \in Runs : Assign(r)
    \/ \E r \in Runs : CommitCall(r)
    \/ \E r \in Runs : CommitOk(r)
    \/ \E r \in Runs : CommitFail(r)
    \/ \E r \in Runs : CommitCancelled(r)
    \/ \E r \in Runs : Release(r)

Spec == Init /\ [][Next]_vars

SpecConc == InitConc /\ [][Next]_vars

\* One invocation whose pending step is always eventually taken: the event
\* loop resumes the coroutine whenever a collaborator returns or raises.
FairSpec == Init /\ [][Next]_vars /\ WF_vars(Next)

(***************************************************************************)
(* Vocabulary of the properties.                                           *)
(***************************************************************************)
Terminal(r) == pc[r] \in {"Completed", "Failed"}

Visited(r, p) == p \in Range(hist[r])

\* The input Documents of r, as they were when index_docs was called.
Inputs(r) == Deref(heap0[r], docs[r])

HasUser(cfg) == ~cfg.isNone /\ ~UserIdMissing(cfg)

UserIdIn(cfg) == cfg.dict["configurable"]["user_id"]

ValidContext(cfg) == HasUser(cfg) /\ UserIdIn(cfg) # ""

RaisedWith(r, e) == result[r].kind = "raise" /\ result[r].value.exc = e

StageErrors == {"KeyError", "EmbeddingProviderError", "InvariantViolation"}

\* A committed document is enriched: stamped and labelled.
Enriched(d) == {"user_id", "topic"} \subseteq DOMAIN d.metadata

\* Batch b holds one enriched document for every input document of r.
WholeBatch(r, b) ==
    /\ Len(b) = Len(docs[r])
    /\ \A i \in DOMAIN b :
          /\ Enriched(b[i])
          /\ b[i].page_content = Inputs(r)[i].page_content

(***************************************************************************)
(* C1: all-or-nothing indexing. Every call of aadd_documents made by a run *)
(* passes a batch with one enriched document per input document of         *)
(* state.docs, the sink stores only such batches, and a run in which       *)
(* stamping, embedding or topic assignment failed has called               *)
(* aadd_documents not at all.                                              *)
(***************************************************************************)
C1_AllOrNothing ==
    /\ \A r \in Runs :
          /\ \A k \in DOMAIN commitCalls[r] :
                WholeBatch(r, Deref(heap[r], commitCalls[r][k]))
          /\ (pending[r] \in StageErrors) => commitCalls[r] = <<>>
          /\ (\E e \in StageErrors : RaisedWith(r, e)) =>
                (commitCalls[r] = <<>> /\ \A k \in DOMAIN sink : sink[k].by # r)
    /\ \A k \in DOMAIN sink : WholeBatch(sink[k].by, sink[k].batch)

C1_Witness ==
    \E r \in Runs :
        /\ Len(docs[r]) >= 2
        /\ Len(commitCalls[r]) = 1
        /\ \E k \in DOMAIN sink : sink[k].by = r /\ Len(sink[k].batch) >= 2

(***************************************************************************)
(* C2: guaranteed release. A run that holds the sink handle eventually     *)
(* gives it up, and a run that has ended, by returning or by any           *)
(* exception, does not hold it: every acquire has had its release.         *)
(***************************************************************************)
C2_GuaranteedRelease ==
    /\ [](\A r \in {1} : Terminal(r) => (~held[r] /\ released[r] = acquired[r]))
    /\ \A r \in {1} : (held[r] ~> ~held[r])

C2_Witness ==
    \E r \in Runs :
        /\ pc[r] = "Failed"
        /\ acquired[r] = 1
        /\ released[r] = 1
        /\ RaisedWith(r, "InvariantViolation")

(***************************************************************************)
(* C3: the completion signal is returned only after the commit succeeded.  *)
(* A run that returned has had its batch stored by the sink with no error  *)
(* pending; a run whose commit raised SinkError ends raising SinkError and *)
(* never returns.                                                          *)
(***************************************************************************)
C3_SignalOnlyAfterCommit ==
    \A r \in Runs :
        /\ result[r].kind = "return" =>
              /\ pending[r] = "none"
              /\ \E k \in DOMAIN sink : sink[k].by = r
        /\ pending[r] = "SinkError" =>
              /\ result[r].kind # "return"
              /\ Terminal(r) => result[r] = Raised("SinkError")

C3_Witness ==
    \E r \in Runs :
        /\ pc[r] = "Failed"
        /\ RaisedWith(r, "SinkError")
        /\ Len(commitCalls[r]) = 1

(***************************************************************************)
(* C4: empty-batch run. With state.docs empty and a valid context the run  *)
(* calls neither embed_documents nor make_retriever nor aadd_documents.    *)
(***************************************************************************)
C4_EmptyBatchIsNoOp ==
    \A r \in Runs :
        (docs[r] = <<>> /\ ValidContext(config[r])) =>
            /\ embedCalls[r] = <<>>
            /\ acquired[r] = 0
            /\ commitCalls[r] = <<>>

(***************************************************************************)
(* C5: missing-identity run. With user_id missing or empty the run stamps  *)
(* no document, makes no embedding call, commits nothing and never returns *)
(* the completion signal.                                                  *)
(***************************************************************************)
C5_MissingIdentityRejected ==
    \A r \in Runs :
        (~HasUser(config[r]) \/ UserIdIn(config[r]) = "") =>
            /\ heap[r] = heap0[r]
            /\ stamped[r] = <<>>
            /\ embedCalls[r] = <<>>
            /\ commitCalls[r] = <<>>
            /\ result[r].kind # "return"

(***************************************************************************)
(* C6: per-invocation stage order.                                         *)
(***************************************************************************)
StageChain ==
    <<"Idle", "Validating", "Stamping", "Embedding", "Assigning", "Committing",
      "Completed">>

IsStage(p) == p \in Range(StageChain) \cup {"Failed"}

\* The stages of the state machine among the positions r has visited; the
\* acquire, the await and the release are steps within them.
Stages(r) == SelectSeq(hist[r], IsStage)

IsPrefix(s, t) == Len(s) <= Len(t) /\ s = SubSeq(t, 1, Len(s))

\* s follows the chain from Idle, and may end in Failed from a stage that
\* is not terminal.
FollowsChain(s) ==
    \/ IsPrefix(s, StageChain)
    \/ /\ s[Len(s)] = "Failed"
       /\ IsPrefix(SubSeq(s, 1, Len(s) - 1), StageChain)
       /\ Len(s) - 1 < Len(StageChain)

AssignmentFinished(r) == Visited(r, "Committing")

\* C6 as stated: the stages are visited in the order of the chain, with
\* Failed from any stage that is not terminal, and the sink gateway is not
\* touched (its handle not acquired, its commit not called) before topic
\* assignment has finished.
C6_StageOrderSinkUntouched ==
    \A r \in Runs :
        /\ FollowsChain(Stages(r))
        /\ (acquired[r] > 0 \/ commitCalls[r] # <<>>) => AssignmentFinished(r)

\* C6 as amended: the stages are visited in the order of the chain, with
\* Failed from any stage that is not terminal; the sink's handle is acquired
\* once validation has passed, before stamping, and the sink's commit is not
\* called before topic assignment has finished.
C6_StageOrder ==
    \A r \in Runs :
        /\ FollowsChain(Stages(r))
        /\ acquired[r] > 0 => Visited(r, "Acquiring")
        /\ Visited(r, "Stamping") => acquired[r] > 0
        /\ commitCalls[r] # <<>> =>
              (AssignmentFinished(r) /\ Len(assignCalls[r]) = 1)

C6_Witness ==
    \E r \in Runs :
        /\ Stages(r) = StageChain
        /\ Len(docs[r]) >= 1
        /\ acquired[r] = 1

(***************************************************************************)
(* C7: stamping result. Once stamped_docs exists it has the length of      *)
(* state.docs, and its i-th document has the content of the i-th input,    *)
(* the keys of the input's metadata plus user_id, the config's user_id     *)
(* under user_id, and the input's value under every other key.             *)
(***************************************************************************)
C7_StampingResult ==
    \A r \in Runs :
        Visited(r, "Embedding") =>
            /\ Len(stamped[r]) = Len(docs[r])
            /\ \A i \in DOMAIN stamped[r] :
                  LET s == heap[r][stamped[r][i]]
                      d == Inputs(r)[i]
                  IN  /\ s.page_content = d.page_content
                      /\ DOMAIN s.metadata = DOMAIN d.metadata \cup {"user_id"}
                      /\ s.metadata["user_id"] = UserIdIn(config[r])
                      /\ \A k \in DOMAIN d.metadata \ {"user_id"} :
                            s.metadata[k] = d.metadata[k]

C7_Witness ==
    \E r \in Runs :
        \E i \in DOMAIN stamped[r] :
            /\ "user_id" \in DOMAIN Inputs(r)[i].metadata
            /\ Inputs(r)[i].metadata["user_id"] = "bob"
            /\ "source" \in DOMAIN Inputs(r)[i].metadata
            /\ UserIdIn(config[r]) = "alice"
            /\ heap[r][stamped[r][i]].metadata["user_id"] = "alice"

(***************************************************************************)
(* C8: idempotence of stamping. Stamping stamped_docs again with the same  *)
(* config yields documents equal, in content and metadata, to stamped_docs.*)
(***************************************************************************)
C8_StampIdempotent ==
    \A r \in Runs :
        Visited(r, "Embedding") =>
            LET again == ensure_docs_have_user_id(heap[r], stamped[r], config[r])
            IN  Deref(again.heap, again.result) = Deref(heap[r], stamped[r])

C8_Witness ==
    \E r \in Runs :
        /\ Visited(r, "Embedding")
        /\ Len(stamped[r]) >= 2
        /\ heap[r][stamped[r][1]] # heap[r][stamped[r][2]]

(***************************************************************************)
(* C9: stamping leaves its inputs unchanged. At every point of a run, and  *)
(* after it, state.docs holds the same Documents with the content and      *)
(* metadata they had at the call, and no stamped document is one of them.  *)
(***************************************************************************)
C9_InputsUnchanged ==
    \A r \in Runs :
        /\ docs[r] = [i \in 1..Len(heap0[r]) |-> i]
        /\ Deref(heap[r], docs[r]) = Inputs(r)
        /\ Range(stamped[r]) \cap Range(docs[r]) = {}

C9_Witness ==
    \E r \in Runs :
        /\ Terminal(r)
        /\ Len(stamped[r]) >= 1
        /\ "user_id" \notin DOMAIN Inputs(r)[1].metadata
        /\ "user_id" \in DOMAIN heap[r][stamped[r][1]].metadata

(***************************************************************************)
(* C10: no cross-contamination between concurrent runs. Whatever the       *)
(* interleaving of two invocations with distinct user_id values, every     *)
(* batch passed to aadd_documents by an invocation, and every batch the    *)
(* sink stored for it, holds the invocation's own input documents, in      *)
(* order, each carrying the invocation's own user_id.                      *)
(***************************************************************************)
OwnBatch(r, b) ==
    /\ Len(b) = Len(docs[r])
    /\ \A i \in DOMAIN b :
          /\ b[i].page_content = Inputs(r)[i].page_content
          /\ "user_id" \in DOMAIN b[i].metadata
          /\ b[i].metadata["user_id"] = UserIdIn(config[r])

C10_NoCrossContamination ==
    /\ \A r \in Runs :
          \A k \in DOMAIN commitCalls[r] :
              OwnBatch(r, Deref(heap[r], commitCalls[r][k]))
    /\ \A k \in DOMAIN sink : OwnBatch(sink[k].by, sink[k].batch)

\* Run 2 committed while run 1 was under way, and run 1 committed after it.
C10_Witness ==
    /\ Len(sink) = 2
    /\ sink[1].by = 2
    /\ sink[2].by = 1
    /\ sink[1].batch # <<>>
    /\ sink[2].batch # <<>>
    /\ sink[1].batch[1].page_content # sink[2].batch[1].page_content

(***************************************************************************)
(* C11: cancellation. A run that was cancelled ends without holding the    *)
(* sink handle, every acquire released; while the CancelledError unwinds   *)
(* the with block the handle is on its way through __exit__; and a run     *)
(* cancelled before its commit step began (aadd_documents never called)    *)
(* has no batch in the sink.                                               *)
(***************************************************************************)
Cancelled(r) == pending[r] = "CancelledError" \/ RaisedWith(r, "CancelledError")

StoredFor(r) == { k \in DOMAIN sink : sink[k].by = r }

C11_Cancellation ==
    \A r \in Runs :
        Cancelled(r) =>
            /\ Terminal(r) => (~held[r] /\ released[r] = acquired[r])
            /\ ~Terminal(r) => (pc[r] = "Releasing" /\ held[r])
            /\ commitCalls[r] = <<>> => StoredFor(r) = {}

C11_Witness ==
    \E r \in Runs :
        /\ pc[r] = "Failed"
        /\ RaisedWith(r, "CancelledError")
        /\ acquired[r] = 1
        /\ released[r] = 1
        /\ ~held[r]

(***************************************************************************)
(* C12: a count mismatch is fatal. When embed_documents returned a number  *)
(* of vectors different from the number of texts it was given, the run     *)
(* never calls aadd_documents, stores nothing, never returns, and ends     *)
(* raising InvariantViolation; so whenever a batch was committed, the      *)
(* topic assigner was given as many vectors as documents, vector i being   *)
(* the embedding of document i.                                            *)
(***************************************************************************)
MismatchReturned(r) ==
    /\ Visited(r, "Assigning")
    /\ Len(vectors[r]) # Len(embedCalls[r][1])

C12_CountMismatchFatal ==
    \A r \in Runs :
        /\ MismatchReturned(r) =>
              /\ commitCalls[r] = <<>>
              /\ StoredFor(r) = {}
              /\ result[r].kind # "return"
              /\ Terminal(r) =>
                    (RaisedWith(r, "InvariantViolation")
                        \/ RaisedWith(r, "EmbeddingProviderError"))
        /\ commitCalls[r] # <<>> =>
              \A k \in DOMAIN assignCalls[r] :
                  LET a == assignCalls[r][k]
                  IN  /\ Len(a.docs) = Len(a.vectors)
                      /\ \A i \in DOMAIN a.docs :
                            a.vectors[i] = Vec(heap[r][a.docs[i]].page_content)

C12_Witness ==
    \E r \in Runs :
        /\ pc[r] = "Failed"
        /\ RaisedWith(r, "InvariantViolation")
        /\ Len(vectors[r]) > Len(stamped[r])
        /\ Len(stamped[r]) >= 1

(***************************************************************************)
(* C13: end-to-end identity. Every document a run passes to                *)
(* aadd_documents, and every document the sink stored for it, has the      *)
(* config's user_id under user_id and, under every key of its input        *)
(* document other than the reserved keys user_id and topic, the input's    *)
(* value.                                                                  *)
(***************************************************************************)
ReservedKeys == {"user_id", "topic"}

KeepsIdentity(r, b) ==
    \A i \in DOMAIN b :
        /\ i \in DOMAIN docs[r]
        /\ "user_id" \in DOMAIN b[i].metadata
        /\ b[i].metadata["user_id"] = UserIdIn(config[r])
        /\ \A k \in DOMAIN Inputs(r)[i].metadata \ ReservedKeys :
              /\ k \in DOMAIN b[i].metadata
              /\ b[i].metadata[k] = Inputs(r)[i].metadata[k]

C13_EndToEndIdentity ==
    /\ \A r \in Runs :
          \A k \in DOMAIN commitCalls[r] :
              KeepsIdentity(r, Deref(heap[r], commitCalls[r][k]))
    /\ \A k \in DOMAIN sink : KeepsIdentity(sink[k].by, sink[k].batch)

C13_Witness ==
    \E r \in Runs :
        /\ ValidContext(config[r])
        /\ UserIdIn(config[r]) = "alice"
        /\ commitCalls[r] # <<>>
        /\ \E i \in DOMAIN docs[r] :
              /\ Inputs(r)[i].metadata = [source |-> "web", user_id |-> "bob"]
              /\ heap[r][commitCalls[r][1][i]].metadata["source"] = "web"

(***************************************************************************)
(* C14: the completion signal is a constant directive. Whatever the        *)
(* documents and the user_id, a run that returned has returned the dict    *)
(* with the single key docs and the value "delete".                        *)
(***************************************************************************)
C14_SignalIsConstant ==
    \A r \in Runs :
        /\ result[r].kind = "return" =>
              /\ DOMAIN result[r].value = {"docs"}
              /\ result[r].value["docs"] = "delete"
        /\ pc[r] = "Completed" => result[r].kind = "return"

C14_Witness ==
    \E r \in Runs :
        /\ pc[r] = "Completed"
        /\ result[r].kind = "return"
        /\ Len(docs[r]) >= 1
        /\ Inputs(r)[1].page_content = "b"
        /\ UserIdIn(config[r]) = "bob"

(***************************************************************************)
(* C15: no retry and guaranteed termination. Every run whose collaborators *)
(* answer reaches Completed or Failed, and at every point it has called    *)
(* embed_documents at most once, the topic assigner at most once and       *)
(* aadd_documents at most once; after a stage failed, no call of a         *)
(* collaborator follows.                                                   *)
(***************************************************************************)
CallsOf(r) == Len(embedCalls[r]) + Len(assignCalls[r]) + Len(commitCalls[r])

C15_NoRetryTerminates ==
    /\ \A r \in {1} : <>Terminal(r)
    /\ [](\A r \in {1} :
              /\ Len(embedCalls[r]) <= 1
              /\ Len(assignCalls[r]) <= 1
              /\ Len(commitCalls[r]) <= 1)
    /\ [][\A r \in {1} : pending[r] # "none" => CallsOf(r)' = CallsOf(r)]_vars

C15_Witness ==
    \E r \in Runs :
        /\ pc[r] = "Failed"
        /\ RaisedWith(r, "EmbeddingProviderError")
        /\ Len(embedCalls[r]) = 1
        /\ commitCalls[r] = <<>>

(***************************************************************************)
(* C16: a single batched embedding call aligned with the documents. A run  *)
(* that got as far as embedding has made exactly one embed_documents call, *)
(* whose argument is the contents of all the input documents in document   *)
(* order; the topic assigner is given all the stamped documents, in order, *)
(* with the vectors as embed_documents returned them.                      *)
(***************************************************************************)
InputTexts(r) == [i \in DOMAIN docs[r] |-> Inputs(r)[i].page_content]

C16_SingleBatchedEmbedding ==
    \A r \in Runs :
        /\ Len(embedCalls[r]) <= 1
        /\ (Visited(r, "Assigning") \/ pending[r] = "EmbeddingProviderError") =>
              (Len(embedCalls[r]) = 1 /\ embedCalls[r][1] = InputTexts(r))
        /\ \A k \in DOMAIN assignCalls[r] :
              /\ assignCalls[r][k].docs = stamped[r]
              /\ Len(stamped[r]) = Len(docs[r])
              /\ assignCalls[r][k].vectors = vectors[r]
              /\ vectors[r] \in EmbedReturns(embedCalls[r][1])

C16_Witness ==
    \E r \in Runs :
        /\ Len(docs[r]) >= 2
        /\ Len(embedCalls[r]) = 1
        /\ Len(embedCalls[r][1]) = Len(docs[r])
        /\ embedCalls[r][1][1] # embedCalls[r][1][2]
        /\ Len(assignCalls[r]) = 1
        /\ Len(assignCalls[r][1].vectors) = Len(docs[r])

(***************************************************************************)
(* C17: no configuration. With config None or {} the run never acquires    *)
(* the sink handle, stamps nothing, calls no collaborator and never        *)
(* returns; once it has run its check it has ended raising ValueError,     *)
(* holding nothing.                                                        *)
(***************************************************************************)
NoConfiguration(cfg) == cfg.isNone \/ DOMAIN cfg.dict = {}

C17_NoConfigRejectedFirst ==
    \A r \in Runs :
        NoConfiguration(config[r]) =>
            /\ acquired[r] = 0
            /\ released[r] = 0
            /\ ~held[r]
            /\ heap[r] = heap0[r]
            /\ stamped[r] = <<>>
            /\ CallsOf(r) = 0
            /\ StoredFor(r) = {}
            /\ result[r].kind # "return"
            /\ ~Visited(r, "Acquiring")
            /\ (Terminal(r) /\ Visited(r, "Validating")) => RaisedWith(r, "ValueError")

C17_Witness ==
    \E r \in Runs :
        /\ config[r] = DictConfig(EmptyMap)
        /\ pc[r] = "Failed"
        /\ RaisedWith(r, "ValueError")
        /\ Len(docs[r]) >= 1

(***************************************************************************)
(* C18: the handle spans the work. A run acquires the sink handle at most  *)
(* once and releases it at most once, never before acquiring; it holds the *)
(* handle exactly between the two; a run that ended has released what it   *)
(* acquired; and every step that stamps, embeds, assigns topics, calls     *)
(* aadd_documents or stores a batch is taken with the handle held before   *)
(* and after it.                                                           *)
(***************************************************************************)
Works(r) ==
    \/ stamped[r]' # stamped[r]
    \/ heap[r]' # heap[r]
    \/ embedCalls[r]' # embedCalls[r]
    \/ assignCalls[r]' # assignCalls[r]
    \/ commitCalls[r]' # commitCalls[r]
    \/ StoredFor(r)' # StoredFor(r)

C18_HandleSpansWork ==
    /\ [](\A r \in {1} :
              /\ acquired[r] <= 1
              /\ released[r] <= acquired[r]
              /\ held[r] <=> (acquired[r] = 1 /\ released[r] = 0)
              /\ Terminal(r) => released[r] = acquired[r]
              /\ Visited(r, "Stamping") => acquired[r] = 1)
    /\ [][\A r \in {1} : Works(r) => (held[r] /\ held[r]')]_vars

C18_Witness ==
    \E r \in Runs :
        /\ pc[r] = "Completed"
        /\ acquired[r] = 1
        /\ released[r] = 1
        /\ Len(stamped[r]) >= 1
        /\ StoredFor(r) # {}

(***************************************************************************)
(* C19: what is committed is the topic assigner's output. Every batch      *)
(* passed to aadd_documents is labelled_docs: the documents the topic      *)
(* assigner made from stamped_docs and the vectors, none of them an input  *)
(* document or a stamped document; and the texts that were embedded are    *)
(* the contents of the input documents.                                    *)
(***************************************************************************)
C19_CommitsAssignerOutput ==
    \A r \in Runs :
        /\ \A k \in DOMAIN commitCalls[r] :
              LET b == commitCalls[r][k]
                  out == get_topic_modeling_info(heap[r], stamped[r], vectors[r])
              IN  /\ b = labelled[r]
                  /\ Len(assignCalls[r]) = 1
                  /\ Len(b) = Len(stamped[r])
                  /\ Range(b) \cap (Range(docs[r]) \cup Range(stamped[r])) = {}
                  /\ Deref(heap[r], b) = Deref(out.heap, out.result)
        /\ \A k \in DOMAIN embedCalls[r] : embedCalls[r][k] = InputTexts(r)

C19_Witness ==
    \E r \in Runs :
        /\ Len(commitCalls[r]) = 1
        /\ Len(commitCalls[r][1]) >= 1
        /\ "topic" \in DOMAIN Inputs(r)[1].metadata
        /\ heap[r][commitCalls[r][1][1]].metadata["topic"] = "unclassified"
        /\ heap[r][stamped[r][1]].metadata["topic"] = "old"

====
